---- MODULE Spec2Model ----
(***************************************************************************)
(* Model of LoanAmortization&PaymentSchedule.py: MortgagePaymentCalculator *)
(* (__init__, calculatepayments, generate_schedule) and main.              *)
(*                                                                         *)
(* Numbers.  Python floats are modelled in fixed point.                    *)
(*   - money is an integer number of 1/10000 dollar, so one cent is Cent   *)
(*     units and np.round(x, 2) rounds to a multiple of Cent, ties to even;*)
(*   - rates and growth factors are integers scaled by Scale (1.0 = Scale);*)
(*   - products of scaled numbers are floored (Mul), x ** n is repeated    *)
(*     squaring (Pow) and x ** (1/k) is the floored k-th root (Root);      *)
(*   - the period counts n_months * (26/12) and n_months * (52/12) are     *)
(*     taken in exact arithmetic.                                          *)
(***************************************************************************)
EXTENDS Integers, Sequences, FiniteSets, TLC

\* ---------------------------------------------------------------- bounds
MaxTerm == 1
MaxAmort == 2

\* ------------------------------------------------------------ arithmetic
\* six decimal digits after the point
Scale == 1000 * 1000
Cent == 100

\* floor(x * y / Scale) for 0 <= x, y < Scale, without leaving 32 bits
MulFrac(x, y) ==
    LET half == 1000
        x1 == x \div half
        x0 == x % half
        y1 == y \div half
        y0 == y % half
    IN  x1 * y1 + (((x1 * y0 + x0 * y1) * half + x0 * y0) \div Scale)

\* floor(a * b / Scale): the float product a * b of two scaled numbers
Mul(a, b) ==
    (a \div Scale) * b + (a % Scale) * (b \div Scale)
        + MulFrac(a % Scale, b % Scale)

\* base ** n for a natural n, by repeated squaring
RECURSIVE Pow(_, _)
Pow(base, n) ==
    IF n = 0 THEN Scale
    ELSE LET half == Pow(base, n \div 2)
             square == Mul(half, half)
         IN  IF n % 2 = 1 THEN Mul(square, base) ELSE square

\* the largest x in lo..hi with (1 + x) ** k <= target
RECURSIVE RootSearch(_, _, _, _)
RootSearch(lo, hi, target, k) ==
    IF lo >= hi THEN lo
    ELSE LET mid == (lo + hi + 1) \div 2
         IN  IF Pow(Scale + mid, k) <= target
             THEN RootSearch(mid, hi, target, k)
             ELSE RootSearch(lo, mid - 1, target, k)

\* target ** (1/k) - 1 for target >= 1; (1 + x)^k >= 1 + k x bounds the search
Root(target, k) == RootSearch(0, (target - Scale) \div k, target, k)

\* np.round(v, 2): nearest multiple of Cent, ties to the even multiple
Round2(v) ==
    LET q == v \div Cent
        rem == v % Cent
    IN  IF 2 * rem < Cent THEN q * Cent
        ELSE IF 2 * rem > Cent THEN (q + 1) * Cent
        ELSE IF q % 2 = 0 THEN q * Cent ELSE (q + 1) * Cent

\* ------------------------------------------------------------ the plans
payment_names == << "Monthly", "Semi-Monthly", "Bi-Weekly",
                    "Weekly", "Rapid Bi-Weekly", "Rapid Weekly" >>

frequencies == [ n \in { payment_names[k] : k \in 1..6 } |->
    CASE n = "Monthly" -> 12
      [] n = "Semi-Monthly" -> 24
      [] n = "Bi-Weekly" -> 26
      [] n = "Weekly" -> 52
      [] n = "Rapid Bi-Weekly" -> 26
      [] n = "Rapid Weekly" -> 52 ]

PlanNames == DOMAIN frequencies

\* --------------------------------------------------------------- inputs
\* what the user types at a prompt: a number, or text that does not parse
Typed(v) == [ok |-> TRUE, val |-> v]
NotANumber == [ok |-> FALSE, val |-> 0]

\* principal, in money units: 0, 0.004, 0.19, 5.006 and 12.00 dollars
PrincipalValues == {0, 40, 1900, 50060, 120000}
\* yearly rate as typed, scaled: 0, 0.05 and 5
RateValues == {0, (5 * Scale) \div 100, 5 * Scale}
AmortValues == 1..MaxAmort
TermValues == 1..MaxTerm

VARIABLES
    pc,                     \* position of main / generate_schedule
    inputs,                 \* what was typed at the four prompts
    args,                   \* main's parsed locals
    constructed,            \* a MortgagePaymentCalculator exists
    principal, interestrate, amortization_period, term,
    monthlyinterestrate, semimonthlyinterestrate,
    biweeklyinterestrate, weeklyinterestrate,
    payment_info,           \* plan name -> periodic payment
    total_term_payments,    \* plan name -> payments in the term
    name,                   \* index in payment_names of the plan in the loop
    i,                      \* loop index of the period loop
    current_balance,
    period, beginning_balance, interest, principal_paid, ending_balance,
    schedules,              \* plan name -> DataFrame, built by the running call
    results,                \* the dictionaries returned so far
    excel_written, png_written

self == << principal, interestrate, amortization_period, term,
           monthlyinterestrate, semimonthlyinterestrate,
           biweeklyinterestrate, weeklyinterestrate >>

lists == << period, beginning_balance, interest, principal_paid,
            ending_balance >>

locals == << payment_info, total_term_payments, name, i, current_balance >>

files == << excel_written, png_written >>

vars == << pc, inputs, args, constructed, self, locals, lists, schedules, results,
           files >>

\* ------------------------------------------------------------- __init__
\* ToDecimal that takes the typed rate to be a decimal fraction already
ToDecimal_AsGiven(rate) == rate

\* interestrate / 100: percentage to decimal
ToDecimal(rate) == rate \div 100

\* (1 + rate/2) ** (2/f) - 1
PeriodicRate(rate, f) == Root(Scale + rate \div 2, f \div 2)

\* ---------------------------------------------------- calculatepayments
calculate_payment(P, periodic_rate, periods) ==
    IF periodic_rate = 0
    THEN P \div periods
    ELSE (P * Mul(periodic_rate, Pow(Scale + periodic_rate, periods)))
             \div (Pow(Scale + periodic_rate, periods) - Scale)

\* calculatepayments sizing the Bi-Weekly and Weekly payments on the
\* Semi-Monthly and Monthly period counts
calculatepayments_WrongPeriods(P, amort, rm, rs, rb, rw) ==
    LET n_months == amort * 12
        MonthlyPayment == calculate_payment(P, rm, n_months)
        SemiMonthlyPayment == calculate_payment(P, rs, n_months * 2)
        BiweeklyPayment == calculate_payment(P, rb, n_months * 2)
        WeeklyPayment == calculate_payment(P, rw, n_months)
        RapidBiweeklyPayment == MonthlyPayment \div 2
        RapidWeeklyPayment == MonthlyPayment \div 4
    IN  << MonthlyPayment, SemiMonthlyPayment, BiweeklyPayment,
           WeeklyPayment, RapidBiweeklyPayment, RapidWeeklyPayment >>

\* calculatepayments with the rapid payments as a third and a sixth of the
\* monthly payment
calculatepayments_SlowRapid(P, amort, rm, rs, rb, rw) ==
    LET n_months == amort * 12
        MonthlyPayment == calculate_payment(P, rm, n_months)
        SemiMonthlyPayment == calculate_payment(P, rs, n_months * 2)
        BiweeklyPayment == calculate_payment(P, rb, (n_months * 26) \div 12)
        WeeklyPayment == calculate_payment(P, rw, (n_months * 52) \div 12)
        RapidBiweeklyPayment == MonthlyPayment \div 3
        RapidWeeklyPayment == MonthlyPayment \div 6
    IN  << MonthlyPayment, SemiMonthlyPayment, BiweeklyPayment,
           WeeklyPayment, RapidBiweeklyPayment, RapidWeeklyPayment >>

calculatepayments(P, amort, rm, rs, rb, rw) ==
    LET n_months == amort * 12
        MonthlyPayment == calculate_payment(P, rm, n_months)
        SemiMonthlyPayment == calculate_payment(P, rs, n_months * 2)
        BiweeklyPayment == calculate_payment(P, rb, (n_months * 26) \div 12)
        WeeklyPayment == calculate_payment(P, rw, (n_months * 52) \div 12)
        RapidBiweeklyPayment == MonthlyPayment \div 2
        RapidWeeklyPayment == MonthlyPayment \div 4
    IN  << MonthlyPayment, SemiMonthlyPayment, BiweeklyPayment,
           WeeklyPayment, RapidBiweeklyPayment, RapidWeeklyPayment >>

\* ---------------------------------------------------- generate_schedule
rates(rm, rs, rb, rw) == [ n \in PlanNames |->
    CASE n = "Monthly" -> rm
      [] n = "Semi-Monthly" -> rs
      [] n = "Bi-Weekly" -> rb
      [] n = "Weekly" -> rw
      [] n = "Rapid Bi-Weekly" -> rb
      [] n = "Rapid Weekly" -> rw ]

\* PeriodStep without the final payment adjustment of lines 138-140
PeriodStep_NoClamp(balance, Pmt, Rate) ==
    LET I_Pmt == Round2(Mul(balance, Rate))
        Principal_Pmt == Round2(Pmt - I_Pmt)
    IN  [I_Pmt |-> I_Pmt, Principal_Pmt |-> Principal_Pmt,
         Ending_Bal |-> Round2(balance - Principal_Pmt)]

\* one pass of the body of the period loop, lines 132-142
PeriodStep(balance, Pmt, Rate) ==
    LET I_Pmt == Round2(Mul(balance, Rate))
        Principal_Pmt == Round2(Pmt - I_Pmt)
    IN  IF balance - Principal_Pmt < 0
        THEN [I_Pmt |-> I_Pmt, Principal_Pmt |-> balance, Ending_Bal |-> 0]
        ELSE [I_Pmt |-> I_Pmt, Principal_Pmt |-> Principal_Pmt,
              Ending_Bal |-> Round2(balance - Principal_Pmt)]

\* BeginningEntry recorded after the balance update of line 152
BeginningEntry_AfterUpdate(balance, Ending_Bal) == Ending_Bal

\* the value appended to beginning_balance, line 146
BeginningEntry(balance, Ending_Bal) == Round2(balance)

\* StartingBalance carried over from the plan simulated before
StartingBalance_CarriedOver(P, leftover) ==
    IF leftover > 0 THEN leftover ELSE P

\* the balance a plan's simulation starts from, line 127
StartingBalance(P, leftover) == P

\* LeavesLoop without the break of lines 154-155
LeavesLoop_NoBreak(idx, Term_Periods, balance) == idx >= Term_Periods

\* LeavesLoop with a range that runs one period past the term
LeavesLoop_OnePastTerm(idx, Term_Periods, balance) ==
    balance <= 0 \/ idx >= Term_Periods + 1

\* the period loop is left after this pass: break (154) or range exhausted
LeavesLoop(idx, Term_Periods, balance) ==
    balance <= 0 \/ idx >= Term_Periods

\* pd.DataFrame(...), lines 158-165
DataFrame(per, beg, Pmt, int, prin, endb) ==
    [ k \in 1..Len(per) |->
        [ Period |-> per[k],
          Beginning_Balance |-> beg[k],
          Payment |-> Round2(Pmt),
          Interest_Paid |-> int[k],
          Principal_Paid |-> prin[k],
          Ending_Balance |-> endb[k] ] ]

\* ----------------------------------------------------------------- Init
Init ==
    /\ pc = "start"
    /\ inputs = << >>
    /\ args = [principal |-> 0, interestrate |-> 0,
               amortization_period |-> 0, term |-> 0]
    /\ constructed = FALSE
    /\ principal = 0 /\ interestrate = 0
    /\ amortization_period = 0 /\ term = 0
    /\ monthlyinterestrate = 0 /\ semimonthlyinterestrate = 0
    /\ biweeklyinterestrate = 0 /\ weeklyinterestrate = 0
    /\ payment_info = << >>
    /\ total_term_payments = << >>
    /\ name = 0 /\ i = 0 /\ current_balance = 0
    /\ period = << >> /\ beginning_balance = << >> /\ interest = << >>
    /\ principal_paid = << >> /\ ending_balance = << >>
    /\ schedules = << >>
    /\ results = << >>
    /\ excel_written = FALSE /\ png_written = FALSE

\* ----------------------------------------------------------------- main
\* ParsedAll with the term prompt outside the try block
ParsedAll_TermUnchecked(p, r, a, t) == p.ok /\ r.ok /\ a.ok

\* no float(...) / int(...) of lines 177-181 raised ValueError
ParsedAll(p, r, a, t) == p.ok /\ r.ok /\ a.ok /\ t.ok

\* lines 176-185: the four prompts inside try / except ValueError
ReadInputs ==
    /\ pc = "start"
    /\ \E p \in { Typed(v) : v \in PrincipalValues } \cup {NotANumber},
          r \in { Typed(v) : v \in RateValues } \cup {NotANumber},
          a \in { Typed(v) : v \in AmortValues } \cup {NotANumber},
          t \in { Typed(v) : v \in TermValues } \cup {NotANumber} :
          /\ inputs' = << p, r, a, t >>
          /\ IF ParsedAll(p, r, a, t)
             THEN /\ pc' = "parsed"
                  /\ args' = [principal |-> p.val, interestrate |-> r.val,
                              amortization_period |-> a.val, term |-> t.val]
             ELSE /\ pc' = "aborted"
                  /\ args' = args
    /\ UNCHANGED << constructed, self, locals, lists, schedules, results,
                    files >>

\* line 188 and __init__, lines 18-39
Construct ==
    /\ pc = "parsed"
    /\ pc' = "constructed"
    /\ constructed' = TRUE
    /\ principal' = args.principal
    /\ interestrate' = ToDecimal(args.interestrate)
    /\ amortization_period' = args.amortization_period
    /\ term' = args.term
    /\ monthlyinterestrate' = PeriodicRate(interestrate', 12)
    /\ semimonthlyinterestrate' = PeriodicRate(interestrate', 24)
    /\ biweeklyinterestrate' = PeriodicRate(interestrate', 26)
    /\ weeklyinterestrate' = PeriodicRate(interestrate', 52)
    /\ UNCHANGED << inputs, args, locals, lists, schedules, results, files >>

\* generate_schedule up to the plan loop, lines 89-112
BeginSchedule ==
    /\ pc' = "plan"
    /\ payment_info' =
         LET payments == calculatepayments(principal, amortization_period,
                 monthlyinterestrate, semimonthlyinterestrate,
                 biweeklyinterestrate, weeklyinterestrate)
         IN  [ n \in PlanNames |->
                 payments[CHOOSE k \in 1..6 : payment_names[k] = n] ]
    /\ total_term_payments' = [ n \in PlanNames |-> term * frequencies[n] ]
    /\ schedules' = << >>
    /\ name' = 1
    /\ UNCHANGED << inputs, args, constructed, self, i, current_balance, lists,
                    results, files >>

\* main's call of generate_schedule, line 192
CallGenerate ==
    /\ pc = "constructed"
    /\ BeginSchedule

\* a second call of generate_schedule on the same calculator, once the
\* first has returned
CallGenerateAgain ==
    /\ pc = "returned"
    /\ Len(results) = 1
    /\ BeginSchedule

\* head of the plan loop, lines 116-127
StartPlan ==
    /\ pc = "plan"
    /\ pc' = IF total_term_payments[payment_names[name]] >= 1
             THEN "loop" ELSE "df"
    /\ period' = << >> /\ beginning_balance' = << >> /\ interest' = << >>
    /\ principal_paid' = << >> /\ ending_balance' = << >>
    /\ current_balance' = StartingBalance(principal, current_balance)
    /\ i' = 1
    /\ UNCHANGED << inputs, args, constructed, self, payment_info,
                    total_term_payments, name, schedules, results, files >>

\* one pass of the period loop, lines 129-155
Period ==
    /\ pc = "loop"
    /\ i <= total_term_payments[payment_names[name]]
    /\ LET n == payment_names[name]
           Pmt == payment_info[n]
           Term_Periods == total_term_payments[n]
           Rate == rates(monthlyinterestrate, semimonthlyinterestrate,
                         biweeklyinterestrate, weeklyinterestrate)[n]
           step == PeriodStep(current_balance, Pmt, Rate)
       IN  /\ period' = Append(period, i)
           /\ beginning_balance' = Append(beginning_balance,
                  BeginningEntry(current_balance, step.Ending_Bal))
           /\ interest' = Append(interest, step.I_Pmt)
           /\ principal_paid' = Append(principal_paid, step.Principal_Pmt)
           /\ ending_balance' = Append(ending_balance, step.Ending_Bal)
           /\ current_balance' = step.Ending_Bal
           /\ IF LeavesLoop(i, Term_Periods, current_balance')
              THEN pc' = "df" /\ i' = i
              ELSE pc' = "loop" /\ i' = i + 1
    /\ UNCHANGED << inputs, args, constructed, self, payment_info,
                    total_term_payments, name, schedules, results, files >>

\* the DataFrame of the plan, lines 158-167, and the return, line 169
FinishPlan ==
    /\ pc = "df"
    /\ schedules' = schedules @@
          (payment_names[name] :>
              DataFrame(period, beginning_balance,
                        payment_info[payment_names[name]],
                        interest, principal_paid, ending_balance))
    /\ IF name < 6
       THEN /\ pc' = "plan"
            /\ name' = name + 1
            /\ results' = results
       ELSE /\ pc' = "returned"
            /\ name' = name
            /\ results' = Append(results, schedules')
    /\ UNCHANGED << inputs, args, constructed, self, payment_info,
                    total_term_payments, i, current_balance, lists, files >>

\* main, lines 195-208: the Excel workbook
WriteExcel ==
    /\ pc = "returned"
    /\ pc' = "excel"
    /\ excel_written' = TRUE
    /\ UNCHANGED << inputs, args, constructed, self, locals, lists, schedules,
                    results, png_written >>

\* main, lines 211-235: the chart
SavePng ==
    /\ pc = "excel"
    /\ pc' = "done"
    /\ png_written' = TRUE
    /\ UNCHANGED << inputs, args, constructed, self, locals, lists, schedules,
                    results, excel_written >>

\* main as written: one call of generate_schedule
MainNext ==
    \/ ReadInputs
    \/ Construct
    \/ CallGenerate
    \/ StartPlan
    \/ Period
    \/ FinishPlan
    \/ WriteExcel
    \/ SavePng

\* main, and a caller that calls generate_schedule a second time
Next ==
    \/ MainNext
    \/ CallGenerateAgain

Spec == Init /\ [][Next]_vars

\* main alone; the interpreter runs a started for loop to its end
FairSpec == Init /\ [][MainNext]_vars /\ WF_vars(Period)

\* ============================================================== claims
\* C1: in every schedule the Ending Balance of a row is the Beginning
\* Balance of the next row, and the Beginning Balance of row 1 is the
\* principal rounded to cents.
C1_BalancesChain ==
    \A n \in DOMAIN schedules :
        LET df == schedules[n]
        IN  /\ \A k \in 1..(Len(df) - 1) :
                   df[k].Ending_Balance = df[k + 1].Beginning_Balance
            /\ Len(df) >= 1 =>
                   /\ df[1].Beginning_Balance % Cent = 0
                   /\ 2 * (df[1].Beginning_Balance - principal) <= Cent
                   /\ 2 * (principal - df[1].Beginning_Balance) <= Cent

C1_Witness ==
    \E n \in DOMAIN schedules :
        /\ Len(schedules[n]) >= 3
        /\ principal % Cent # 0
        /\ schedules[n][2].Ending_Balance < schedules[n][1].Ending_Balance

\* C2: with a positive principal, a non-negative rate and the payments of
\* calculatepayments, the Ending Balance never rises (not above the row's
\* Beginning Balance, not above the previous Ending Balance) and is never
\* negative.
C2_NonIncreasing ==
    (principal > 0 /\ interestrate >= 0) =>
        \A n \in DOMAIN schedules :
            LET df == schedules[n]
            IN  \A k \in 1..Len(df) :
                    /\ df[k].Ending_Balance >= 0
                    /\ df[k].Ending_Balance <= df[k].Beginning_Balance
                    /\ k > 1 =>
                          df[k].Ending_Balance <= df[k - 1].Ending_Balance

\* a loan with a plan whose rounded principal portion is zero on a row
\* and a plan whose last row is the clamped payoff row
C2_Witness ==
    /\ principal > 0
    /\ interestrate > 0
    /\ \E n \in DOMAIN schedules : \E k \in 1..Len(schedules[n]) :
           /\ schedules[n][k].Principal_Paid = 0
           /\ schedules[n][k].Ending_Balance > 0
    /\ \E n \in DOMAIN schedules :
           LET last == schedules[n][Len(schedules[n])]
           IN  /\ Len(schedules[n]) >= 2
               /\ last.Ending_Balance = 0
               /\ last.Principal_Paid = last.Beginning_Balance
               /\ last.Principal_Paid
                      < Round2(payment_info[n] - last.Interest_Paid)

\* the periodic rate the running plan loop reads for plan n
RateOf(n) ==
    rates(monthlyinterestrate, semimonthlyinterestrate,
          biweeklyinterestrate, weeklyinterestrate)[n]

\* the first period, up to cap, after which a balance is paid off at payment
\* Pmt and periodic rate Rate; cap + 1 when it is not paid off by then
RECURSIVE PeriodsNeeded(_, _, _, _, _)
PeriodsNeeded(balance, Pmt, Rate, p, cap) ==
    IF p > cap THEN cap + 1
    ELSE LET after == PeriodStep(balance, Pmt, Rate).Ending_Bal
         IN  IF after <= 0 THEN p
             ELSE PeriodsNeeded(after, Pmt, Rate, p + 1, cap)

\* C3 as stated: a loan that amortizes within the term ends at Ending
\* Balance 0 with strictly fewer rows than totalTermPeriods, any other has
\* exactly totalTermPeriods rows.  (A schedule is looked at when it is
\* stored: pc is "plan" or "returned" right after a plan is finished.)
C3_StrictlyFewerRows ==
    \A n \in DOMAIN schedules :
        LET df == schedules[n]
            T == total_term_payments[n]
            needed == PeriodsNeeded(principal, payment_info[n], RateOf(n), 1, T)
        IN  pc \in {"plan", "returned"} =>
                IF needed <= T
                THEN df[Len(df)].Ending_Balance = 0 /\ Len(df) < T
                ELSE Len(df) = T

\* C3 amended: a loan that amortizes in k <= totalTermPeriods periods has
\* exactly k rows, the last with Ending Balance 0 (fewer rows than
\* totalTermPeriods only when k < totalTermPeriods); any other has exactly
\* totalTermPeriods rows and a positive last Ending Balance.
C3_PayoffOrFullTerm ==
    \A n \in DOMAIN schedules :
        LET df == schedules[n]
            T == total_term_payments[n]
            needed == PeriodsNeeded(principal, payment_info[n], RateOf(n), 1, T)
        IN  pc \in {"plan", "returned"} =>
                IF needed <= T
                THEN Len(df) = needed /\ df[Len(df)].Ending_Balance = 0
                ELSE Len(df) = T /\ df[Len(df)].Ending_Balance > 0

\* one loan with a plan paid off exactly on the last period of the term,
\* a plan paid off early and a plan not paid off within the term
C3_Witness ==
    /\ \E n \in DOMAIN schedules :
           /\ Len(schedules[n]) = total_term_payments[n]
           /\ schedules[n][Len(schedules[n])].Ending_Balance = 0
    /\ \E n \in DOMAIN schedules :
           /\ Len(schedules[n]) < total_term_payments[n]
           /\ Len(schedules[n]) >= 2
    /\ \E n \in DOMAIN schedules :
           schedules[n][Len(schedules[n])].Ending_Balance > 0

BasePlans == {"Monthly", "Semi-Monthly", "Bi-Weekly", "Weekly"}

RapidPairs == { << "Bi-Weekly", "Rapid Bi-Weekly" >>,
                << "Weekly", "Rapid Weekly" >> }

\* C5: at every period both schedules have, the Ending Balance of the rapid
\* plan is at most that of the plain plan of the same cadence, and when the
\* plain plan reaches 0 the rapid plan has reached 0 no later.
C5_RapidNoSlower ==
    \A pair \in RapidPairs :
        (pair[1] \in DOMAIN schedules /\ pair[2] \in DOMAIN schedules) =>
            LET plain == schedules[pair[1]]
                rapid == schedules[pair[2]]
            IN  /\ \A k \in 1..Len(plain) :
                       k <= Len(rapid) =>
                           rapid[k].Ending_Balance <= plain[k].Ending_Balance
                /\ plain[Len(plain)].Ending_Balance = 0 =>
                       /\ rapid[Len(rapid)].Ending_Balance = 0
                       /\ Len(rapid) <= Len(plain)

C5_Witness ==
    /\ interestrate > 0
    /\ \A pair \in RapidPairs :
           /\ pair[2] \in DOMAIN schedules
           /\ Len(schedules[pair[2]]) < Len(schedules[pair[1]])
           /\ schedules[pair[2]][2].Ending_Balance
                  < schedules[pair[1]][2].Ending_Balance

\* x is the floored k-th root of target, less 1
IsRoot(x, target, k) ==
    /\ x >= 0
    /\ Pow(Scale + x, k) <= target
    /\ Pow(Scale + x + 1, k) > target

\* the four periodic rates are (1 + nominal/2) ** (2/f) - 1, and the rapid
\* plans accrue the interest of the plain plans of their cadence
RatesFrom(nominal) ==
    /\ IsRoot(monthlyinterestrate, Scale + nominal \div 2, 6)
    /\ IsRoot(semimonthlyinterestrate, Scale + nominal \div 2, 12)
    /\ IsRoot(biweeklyinterestrate, Scale + nominal \div 2, 13)
    /\ IsRoot(weeklyinterestrate, Scale + nominal \div 2, 26)
    /\ \A pair \in RapidPairs :
           (pair[1] \in DOMAIN schedules /\ pair[2] \in DOMAIN schedules) =>
               schedules[pair[2]][1].Interest_Paid
                   = schedules[pair[1]][1].Interest_Paid

\* C6 as stated: the periodic rates are computed from the supplied rate
\* taken as a decimal fraction, as given.
C6_RateUsedAsGiven ==
    constructed => RatesFrom(args.interestrate)

\* C6 amended: the supplied rate is a percentage; the periodic rates are
\* computed from the supplied rate divided by 100.
C6_RateIsPercentage ==
    constructed =>
        /\ 100 * interestrate <= args.interestrate
        /\ args.interestrate < 100 * (interestrate + 1)
        /\ RatesFrom(interestrate)

C6_Witness ==
    /\ constructed
    /\ args.interestrate = 5 * Scale
    /\ monthlyinterestrate > weeklyinterestrate
    /\ weeklyinterestrate > 0
    /\ "Rapid Weekly" \in DOMAIN schedules
    /\ schedules["Rapid Weekly"][1].Interest_Paid > 0

\* C7: every call of generate_schedule on a calculator returns the same
\* schedules, every plan starts from the principal, and no step after
\* construction changes a field of the calculator.
C7_Idempotent ==
    /\ [](\A a, b \in DOMAIN results : results[a] = results[b])
    /\ []((pc = "loop" /\ period = << >>) => current_balance = principal)
    /\ [][constructed => self' = self]_vars

C7_Witness ==
    /\ Len(results) = 2
    /\ principal > Cent
    /\ interestrate > 0
    /\ Len(results[2]["Monthly"]) >= 2
    /\ results[1]["Rapid Weekly"][Len(results[1]["Rapid Weekly"])].Ending_Balance = 0

\* C8: when one of the four prompts does not parse, main stops there:
\* no calculator, no schedule, no file, and no further step.
C8_AbortsOnBadInput ==
    (inputs # << >> /\ \E k \in 1..4 : ~inputs[k].ok) =>
        /\ pc = "aborted"
        /\ ~constructed
        /\ schedules = << >> /\ results = << >>
        /\ ~excel_written /\ ~png_written
        /\ ~ENABLED Next

C8_Witness ==
    /\ pc = "aborted"
    /\ inputs[1].ok /\ inputs[2].ok /\ inputs[3].ok /\ ~inputs[4].ok

\* the shape of a finished schedule: at most totalTermPeriods rows,
\* numbered 1..k, a zero Ending Balance only on the last row, and a
\* schedule shorter than the term ends at 0
ScheduleShape(df, T) ==
    /\ Len(df) <= T
    /\ \A k \in 1..Len(df) : df[k].Period = k
    /\ \A k \in 1..(Len(df) - 1) : df[k].Ending_Balance > 0
    /\ Len(df) < T => (Len(df) >= 1 /\ df[Len(df)].Ending_Balance = 0)

\* C9: every plan's loop ends, after at most totalTermPeriods rows numbered
\* 1..k, right after the first row whose Ending Balance is <= 0.
C9_LoopTerminates ==
    /\ [](\A n \in DOMAIN schedules :
             ScheduleShape(schedules[n], total_term_payments[n]))
    /\ [](pc = "loop" =>
             /\ Len(period) = i - 1
             /\ i <= total_term_payments[payment_names[name]]
             /\ (i > 1 => current_balance > 0))
    /\ (pc = "loop") ~> (pc = "df")

C9_Witness ==
    \E n \in DOMAIN schedules :
        /\ Len(schedules[n]) >= 2
        /\ Len(schedules[n]) < total_term_payments[n]
        /\ schedules[n][Len(schedules[n])].Ending_Balance = 0
        /\ \E m \in DOMAIN schedules :
               Len(schedules[m]) = total_term_payments[m]

\* C10 as stated: every emitted row has a positive Beginning Balance, so a
\* loan with principal 0 has empty schedules.
C10_EveryRowPositive ==
    \A n \in DOMAIN schedules :
        \A k \in 1..Len(schedules[n]) :
            schedules[n][k].Beginning_Balance > 0

\* C10 amended: the first row of a plan is emitted whatever the balance;
\* every later row has a positive Beginning Balance; a loan with principal
\* 0 has one row per plan, with Beginning and Ending Balance 0.
C10_LaterRowsPositive ==
    \A n \in DOMAIN schedules :
        LET df == schedules[n]
        IN  /\ Len(df) <= total_term_payments[n]
            /\ \A k \in 2..Len(df) : df[k].Beginning_Balance > 0
            /\ (principal = 0 /\ total_term_payments[n] >= 1) =>
                   /\ Len(df) = 1
                   /\ df[1].Beginning_Balance = 0
                   /\ df[1].Ending_Balance = 0

C10_Witness ==
    /\ principal = 0
    /\ DOMAIN schedules = PlanNames
    /\ \A n \in PlanNames : Len(schedules[n]) = 1

====
